---- MODULE Spec2Model ----
(***************************************************************************)
(* A model of src/tello.py: the Tello session object, its caller thread    *)
(* (constructor, send_to, speed_switch, cie_reset, get_drone_data, stop)   *)
(* and its background thread (receive_data / parse_data).                  *)
(*                                                                         *)
(* Bytes are integers 0..255, byte strings and lists are sequences.  A     *)
(* Python index i (0-based) is the TLA+ index i+1.  Python strings are     *)
(* sequences of code points.  x, y and z are kept in tenths (the code adds *)
(* round(v/100, 1), a multiple of 0.1, at every frame).                    *)
(***************************************************************************)
EXTENDS Integers, Sequences, FiniteSets, TLC

(***************************************************************************)
(* Bounds of the model.                                                    *)
(***************************************************************************)
\* operations started in one run: caller calls after the constructor plus
\* datagrams taken by the receive thread
MaxOps == 2
\* lines printed by the exception handler that the model counts exactly
MaxErrs == 1

(***************************************************************************)
(* Class constants, src/tello.py:10-13.                                    *)
(***************************************************************************)
CMD_LIST == [takeoff |-> 84, land |-> 85, stick |-> 80, get_ssid |-> 17]

PAC_TYPE_LIST == [takeoff |-> 104, land |-> 104, stick |-> 96, get_ssid |-> 72]

VIDEO_PORT == 6038

\* the bytes of 'conn_req:'.encode()
CONN_REQ_TEXT == <<99, 111, 110, 110, 95, 114, 101, 113, 58>>

\* the argument of recvfrom
RECV_BUFSIZE == 1518

(***************************************************************************)
(* Integers and bytes.                                                     *)
(***************************************************************************)
RECURSIVE Pow(_, _)
Pow(b, e) == IF e = 0 THEN 1 ELSE b * Pow(b, e - 1)

\* a << k for a Python int (negative a included)
Shl(a, k) == a * Pow(2, k)

RECURSIVE Xor(_, _, _)
\* bitwise exclusive or of two naturals below 2^n
Xor(a, b, n) ==
  IF n = 0 THEN 0
  ELSE (((a % 2) + (b % 2)) % 2) + 2 * Xor(a \div 2, b \div 2, n - 1)

\* exclusive or, by the table of the 16 x 16 four-bit results
XOR_NIBBLE == [a \in 0..15 |-> [b \in 0..15 |-> Xor(a, b, 4)]]

Xor8(a, b) == XOR_NIBBLE[a % 16][b % 16] + 16 * XOR_NIBBLE[a \div 16][b \div 16]

Xor16(a, b) == Xor8(a % 256, b % 256) + 256 * Xor8(a \div 256, b \div 256)

\* the bytes most significant first
to_bytes_big(n, k) == [i \in 1..k |-> (n \div Pow(256, k - i)) % 256]

\* int.to_bytes(k, 'little') raises OverflowError outside 0 .. 256^k - 1
CanToBytes(n, k) == n >= 0 /\ n < Pow(256, k)

to_bytes(n, k) == [i \in 1..k |-> (n \div Pow(256, i - 1)) % 256]

IsByte(b) == b \in 0..255

RECURSIVE Digits(_)
\* the number of characters of str(n), n >= 0
Digits(n) == IF n < 10 THEN 1 ELSE 1 + Digits(n \div 10)

\* int(f'{a}{b}') for a, b >= 0: the decimal strings concatenated
DecimalConcat(a, b) == a * Pow(10, Digits(b)) + b

\* s[a:], s[:b] and s[a:b] of Python for a >= 0, any b
PySlice(s, a, b) ==
  LET n    == Len(s)
      stop == IF b < 0 THEN (IF n + b < 0 THEN 0 ELSE n + b)
                       ELSE (IF b > n THEN n ELSE b)
      from == IF a > n THEN n ELSE a
  IN  IF from >= stop THEN <<>> ELSE SubSeq(s, from + 1, stop)

(***************************************************************************)
(* The two checksums, crcmod.mkCrcFun(poly, rev=True, initCrc, xorOut=0):  *)
(* a reflected CRC, the register starts at initCrc.                        *)
(***************************************************************************)
\* 0x131 without its top bit, bit-reversed in 8 bits
CRC8_REVPOLY == 140
CRC8_INIT == 119
\* 0x11021 without its top bit, bit-reversed in 16 bits
CRC16_REVPOLY == 33800
CRC16_INIT == 13970

RECURSIVE CrcBits(_, _, _, _)
\* k shifts of the reflected register
CrcBits(crc, revpoly, width, k) ==
  IF k = 0 THEN crc
  ELSE IF crc % 2 = 1
    THEN CrcBits(Xor(crc \div 2, revpoly, width), revpoly, width, k - 1)
    ELSE CrcBits(crc \div 2, revpoly, width, k - 1)

\* crcmod works from a table of the 256 one-byte remainders
CRC8_TABLE == [b \in 0..255 |-> CrcBits(b, CRC8_REVPOLY, 8, 8)]

CRC16_TABLE == [b \in 0..255 |-> CrcBits(b, CRC16_REVPOLY, 16, 8)]

\* crc = table[byte ^ (crc & 0xFF)] ^ (crc >> 8)
CrcByte(crc, byte, table) ==
  Xor16(table[Xor8(crc % 256, byte)], crc \div 256)

RECURSIVE CrcBytes(_, _, _, _)
\* the register after bytes[i ..]; the register is a number below 2^16
CrcBytes(crc, bytes, i, table) ==
  IF i > Len(bytes) THEN crc
  ELSE CrcBytes([c \in 0..65535 |-> CrcByte(c, bytes[i], table)][crc],
                bytes, i + 1, table)

CRC8_FUNC(bytes) == CrcBytes(CRC8_INIT, bytes, 1, CRC8_TABLE)

CRC16_FUNC(bytes) == CrcBytes(CRC16_INIT, bytes, 1, CRC16_TABLE)

(***************************************************************************)
(* Frame construction.                                                     *)
(***************************************************************************)
\* build_packet raises (OverflowError of to_bytes) outside these
CanBuildPacket(cmd_id, seq_id, data) ==
  /\ CanToBytes(Shl(11 + Len(data), 3), 2)
  /\ CanToBytes(cmd_id, 2)
  /\ CanToBytes(seq_id, 2)

build_packet(pac_type, cmd_id, seq_id, data) ==
  LET size   == 11 + Len(data)
      header == <<204>> \o to_bytes(Shl(size, 3), 2)
      body   == header \o <<CRC8_FUNC(header), pac_type>>
                       \o to_bytes(cmd_id, 2) \o to_bytes(seq_id, 2) \o data
  IN  body \o to_bytes(CRC16_FUNC(body), 2)

\* Struct('!nB').pack raises struct.error unless every item is in 0..255
CanPack(packet) == \A i \in 1..Len(packet) : IsByte(packet[i])

\* Struct('!nB').pack(*packet): one byte per item, in order
packet_to_binary(packet) == [i \in 1..Len(packet) |-> packet[i] % 256]

\* round(us / 1000) of Python 3: to the nearest integer, a tie to the even one
RoundHalfEven(num, den) ==
  LET q == num \div den
      r == num % den
  IN  IF 2 * r < den THEN q
      ELSE IF 2 * r > den THEN q + 1
      ELSE IF q % 2 = 0 THEN q ELSE q + 1

\* clk = <<hour, minute, second, microsecond>>, the reading of datetime.now()
get_current_time(clk) ==
  LET ms == RoundHalfEven(clk[4], 1000)
  IN  <<clk[1], clk[2], clk[3]>> \o to_bytes(ms, 2)

(***************************************************************************)
(* stick_data = (speed << 44) + (move[0] << 33) + (move[1] << 22)          *)
(*            + (move[2] << 11) + move[3]                                  *)
(* is a Python integer of up to 48 bits and more.  It is kept as its four  *)
(* digits in base 2^11, least significant first, the last digit unbounded: *)
(* the sum is  move[3] + 2^11 move[2] + 2^22 move[1]                        *)
(*           + 2^33 (move[0] + 2^11 speed),  carries propagated upwards.   *)
(***************************************************************************)
stick_data_flag_43(speed, move) ==
  LET d0 == move[4]
      d1 == move[3] + (d0 \div 2048)
      d2 == move[2] + (d1 \div 2048)
      d3 == move[1] + Shl(speed, 10) + (d2 \div 2048)
  IN  <<d0 % 2048, d1 % 2048, d2 % 2048, d3>>

stick_data(speed, move) ==
  LET d0 == move[4]
      d1 == move[3] + (d0 \div 2048)
      d2 == move[2] + (d1 \div 2048)
      d3 == move[1] + Shl(speed, 11) + (d2 \div 2048)
  IN  <<d0 % 2048, d1 % 2048, d2 % 2048, d3>>

\* bit k (0 .. 47) of a packed integer that fits 48 bits
StickBit(limbs, k) == (limbs[(k \div 11) + 1] \div Pow(2, k % 11)) % 2

\* stick_data.to_bytes(6, 'little') raises OverflowError unless
\* 0 <= stick_data < 2^48, that is unless the top digit is in 0 .. 2^15 - 1
CanStickToBytes(limbs) == limbs[4] >= 0 /\ limbs[4] < 32768

stick_to_bytes(limbs) ==
  LET bitAt(k) == IF k >= 33 THEN (limbs[4] \div Pow(2, k - 33)) % 2
                             ELSE StickBit(limbs, k)
      byteAt(i) == bitAt(8 * i) + 2 * bitAt(8 * i + 1) + 4 * bitAt(8 * i + 2)
                   + 8 * bitAt(8 * i + 3) + 16 * bitAt(8 * i + 4)
                   + 32 * bitAt(8 * i + 5) + 64 * bitAt(8 * i + 6)
                   + 128 * bitAt(8 * i + 7)
  IN  [i \in 1..6 |-> byteAt(i - 1)]

\* move_to raises IndexError on a short move, OverflowError when the packed
\* integer does not fit 6 unsigned bytes
CanMoveTo(speed, move) ==
  /\ Len(move) >= 4
  /\ CanStickToBytes(stick_data(speed, move))

move_to(speed, move, clk) ==
  stick_to_bytes(stick_data(speed, move)) \o get_current_time(clk)

\* the mutable default argument move=[1024]*4
DEFAULT_MOVE == <<1024, 1024, 1024, 1024>>


(***************************************************************************)
(* Decoding on the receive path.                                           *)
(***************************************************************************)
IsCont(b) == b >= 128 /\ b <= 191

\* the length (1 .. 4) of the well-formed UTF-8 sequence at the head of bs,
\* 0 when there is none (bytes.decode('utf-8') raises UnicodeDecodeError)
Utf8Len(bs) ==
  LET n  == Len(bs)
      b0 == bs[1]
  IN  IF b0 < 128 THEN 1
      ELSE IF b0 >= 194 /\ b0 <= 223
        THEN IF n >= 2 /\ IsCont(bs[2]) THEN 2 ELSE 0
      ELSE IF b0 >= 224 /\ b0 <= 239
        THEN IF /\ n >= 3
                /\ IsCont(bs[2])
                /\ IsCont(bs[3])
                /\ (b0 = 224 => bs[2] >= 160)
                /\ (b0 = 237 => bs[2] <= 159)
             THEN 3 ELSE 0
      ELSE IF b0 >= 240 /\ b0 <= 244
        THEN IF /\ n >= 4
                /\ IsCont(bs[2])
                /\ IsCont(bs[3])
                /\ IsCont(bs[4])
                /\ (b0 = 240 => bs[2] >= 144)
                /\ (b0 = 244 => bs[2] <= 143)
             THEN 4 ELSE 0
      ELSE 0

\* the code point of a well-formed sequence of k bytes at the head of bs
Utf8CodePoint(bs, k) ==
  CASE k = 1 -> bs[1]
    [] k = 2 -> (bs[1] % 32) * 64 + (bs[2] % 64)
    [] k = 3 -> (bs[1] % 16) * 4096 + (bs[2] % 64) * 64 + (bs[3] % 64)
    [] OTHER -> (bs[1] % 8) * 262144 + (bs[2] % 64) * 4096
                + (bs[3] % 64) * 64 + (bs[4] % 64)

RECURSIVE CanDecodeUtf8(_)
CanDecodeUtf8(bs) ==
  IF bs = <<>> THEN TRUE
  ELSE LET k == Utf8Len(bs)
       IN  k > 0 /\ CanDecodeUtf8(SubSeq(bs, k + 1, Len(bs)))

RECURSIVE decode_utf8(_)
\* bytes.decode('utf-8'): the string, as its code points
decode_utf8(bs) ==
  IF bs = <<>> THEN <<>>
  ELSE LET k == Utf8Len(bs)
       IN  <<Utf8CodePoint(bs, k)>> \o decode_utf8(SubSeq(bs, k + 1, Len(bs)))

\* round(v / 100) in tenths: the digit after the point is dropped
round_units(v) == 10 * RoundHalfEven(v, 100)

\* |v| for which round(v / 100, 1) rounds the tie away from zero: v / 100 is
\* the nearest double, which lies above or below the decimal tie
ROUND_TIES_AWAY == {5, 45, 55, 65, 75, 105, 135, 155, 175, 185, 235, 245}

\* round(v / 100, 1) in tenths, for -255 <= v <= 255
round_tenths(v) ==
  LET a == IF v < 0 THEN 0 - v ELSE v
      q == a \div 10
      r == a % 10
      m == IF r > 5 \/ (r = 5 /\ a \in ROUND_TIES_AWAY) THEN q + 1 ELSE q
  IN  IF v < 0 THEN 0 - m ELSE m

\* rec[i] of the tuple struct.unpack returns: IndexError when i >= len(rec)
HasIndex(rec, i) == i < Len(rec)

At(rec, i) == rec[i + 1]

\* int(f'{rec[6]}{rec[5]}')
dispatch_key(rec) == DecimalConcat(At(rec, 6), At(rec, 5))

(***************************************************************************)
(* The state.  self holds the attributes of the Tello object.              *)
(***************************************************************************)
VARIABLES
  self,     \* the attributes set by __init__ and init_state
  sock,     \* "unbound" (created), "bound" (after the first sendto), "closed"
  sent,     \* the datagrams handed to sock.sendto, in order
  pc,       \* where the caller thread is
  snap,     \* get_drone_data: the values read so far
  ret,      \* the dictionary the last get_drone_data returned (<<>>: none)
  recPc,    \* where the receive thread is
  rec,      \* receive thread: the datagram being processed
  acc,      \* receive thread: the value of self.x (y, z) loaded by +=
  errs,     \* lines printed by the handler of receive_data
  last,     \* the last call of the caller and how it ended
  nSwitch,  \* speed_switch calls so far
  hist,     \* the Telemetry after each fully processed id-86 frame (and reset)
  ops       \* operations started

vars == <<self, sock, sent, pc, snap, ret, recPc, rec, acc, errs, last,
          nSwitch, hist, ops>>

\* 'unknown'
SSID_UNKNOWN == <<117, 110, 107, 110, 111, 119, 110>>

\* the integer 0 that init_state stores in get_command; parse_data stores the
\* string f'{a} {b}', kept as the pair <<a, b>>
GET_COMMAND_INIT == <<0>>

\* __init__ line 23 and init_state
init_state ==
  [sequence |-> 1, speed |-> 0, ssid |-> SSID_UNKNOWN, uptime |-> 0,
   height |-> 0, x |-> 0, y |-> 0, z |-> 0, vx |-> 0, vy |-> 0, vz |-> 0,
   flytime |-> 0, battery |-> 0, wifi |-> 0,
   get_command |-> GET_COMMAND_INIT, rec_command_id |-> 0]

Fields == DOMAIN init_state

\* the keys of the dictionary get_drone_data builds, in the order it reads
\* them ('humei' is read from get_command)
SNAP_FIELDS ==
  <<"ssid", "height", "vx", "vy", "vz", "x", "y", "z", "flytime", "battery",
    "wifi", "get_command", "rec_command_id">>

\* the velocity, position, height, flight time and battery of the attributes
Telemetry(s) ==
  <<s.height, s.vx, s.vy, s.vz, s.x, s.y, s.z, s.flytime, s.battery>>

NoCall == [op |-> "none", cmd |-> "", move |-> <<>>, raised |-> FALSE]

(***************************************************************************)
(* Init: __init__ has created the socket, started the receive thread, set  *)
(* sequence and run init_state; connect() is about to run.  The receive    *)
(* thread is in recvfrom on a socket that has no local address before the  *)
(* first sendto, so it cannot have taken a datagram yet.                   *)
(***************************************************************************)
Init ==
  /\ self = init_state
  /\ sock = "unbound"
  /\ sent = <<>>
  /\ pc = "connect"
  /\ snap = <<>>
  /\ ret = <<>>
  /\ recPc = "recv"
  /\ rec = <<>>
  /\ acc = 0
  /\ errs = 0
  /\ last = NoCall
  /\ nSwitch = 0
  /\ hist = {Telemetry(init_state)}
  /\ ops = 0

(***************************************************************************)
(* Inputs.                                                                 *)
(***************************************************************************)
\* command names a caller passes to send_to; 'flip' is not in CMD_LIST
Commands == {"takeoff", "land", "stick", "get_ssid", "flip"}

\* move vectors: neutral, the largest in range, one channel one above the
\* range, one channel below it
Moves ==
  {DEFAULT_MOVE, <<2047, 2047, 2047, 2047>>, <<2048, 0, 0, 0>>, <<0, 0, 0, -1>>}

\* readings of the clock: <<hour, minute, second, microsecond>>
Clocks == {<<12, 34, 56, 250000>>, <<23, 59, 59, 999500>>}

InRange(move) == \A i \in 1..Len(move) : move[i] >= 0 /\ move[i] <= 2047

\* the statements of parse_data, in order; x += v is a load and a store
PARSE_STEPS ==
  <<"uptime", "height", "vy", "vx", "vz", "x_load", "x_store", "y_load",
    "y_store", "z_load", "z_store", "flytime", "battery", "get_command">>

InParseData(p) == \E i \in 1..Len(PARSE_STEPS) : PARSE_STEPS[i] = p

(***************************************************************************)
(* The caller thread.                                                      *)
(***************************************************************************)
\* lines 47-52: the payload of a command
payload_of(cmd, speed, move, clk) ==
  IF cmd = "land" THEN <<0>>
  ELSE IF cmd = "stick" THEN move_to(speed, move, clk)
  ELSE <<>>

\* lines 50-51: the counter a send works with
sequence_in_send(cmd, sequence) == IF cmd = "stick" THEN 0 ELSE sequence

\* whether send_to raises to its caller, and then transmits nothing:
\* line 52 (move_to), line 54 (KeyError, build_packet), line 55 (pack, sendto)
send_to_raises(s, sk, cmd, move, clk) ==
  \/ cmd = "stick" /\ ~CanMoveTo(s.speed, move)
  \/ cmd \notin DOMAIN PAC_TYPE_LIST
  \/ cmd \notin DOMAIN CMD_LIST
  \/ ~CanBuildPacket(CMD_LIST[cmd], sequence_in_send(cmd, s.sequence),
                     payload_of(cmd, s.speed, move, clk))
  \/ ~CanPack(build_packet(PAC_TYPE_LIST[cmd], CMD_LIST[cmd],
                           sequence_in_send(cmd, s.sequence),
                           payload_of(cmd, s.speed, move, clk)))
  \/ sk = "closed"

\* the datagram line 55 hands to sendto
send_to_datagram(s, cmd, move, clk) ==
  packet_to_binary(build_packet(PAC_TYPE_LIST[cmd], CMD_LIST[cmd],
                                sequence_in_send(cmd, s.sequence),
                                payload_of(cmd, s.speed, move, clk)))

\* the sequence counter send_to leaves: line 57 is reached only by a send
\* that did not raise
sequence_after_send(s, cmd, raised) ==
  IF raised THEN sequence_in_send(cmd, s.sequence)
  ELSE sequence_in_send(cmd, s.sequence) + 1

\* one call of send_to, whoever makes it
SendTo(cmd, move, clk) ==
  LET raised == send_to_raises(self, sock, cmd, move, clk)
  IN  /\ self' = [self EXCEPT !.sequence = sequence_after_send(self, cmd, raised)]
      /\ sent' = IF raised THEN sent
                 ELSE Append(sent, send_to_datagram(self, cmd, move, clk))
      /\ sock' = IF raised THEN sock ELSE "bound"
      /\ last' = [op |-> "send_to", cmd |-> cmd, move |-> move, raised |-> raised]

\* the datagram connect sends first
conn_req_cmd == CONN_REQ_TEXT \o to_bytes(VIDEO_PORT, 2)

\* connect, lines 42-43
connect ==
  /\ pc = "connect"
  /\ sent' = Append(sent, conn_req_cmd)
  /\ sock' = "bound"
  /\ pc' = "get_ssid"
  /\ UNCHANGED <<self, snap, ret, recPc, rec, acc, errs, last, nSwitch, hist, ops>>

\* connect, line 44; __init__ returns
connect_get_ssid ==
  /\ pc = "get_ssid"
  /\ \E clk \in Clocks : SendTo("get_ssid", DEFAULT_MOVE, clk)
  /\ pc' = "idle"
  /\ UNCHANGED <<snap, ret, recPc, rec, acc, errs, nSwitch, hist, ops>>

send_to ==
  /\ pc = "idle"
  /\ ops < MaxOps
  /\ \E cmd \in Commands :
       \E move \in (IF cmd = "stick" THEN Moves ELSE {DEFAULT_MOVE}) :
         \E clk \in (IF cmd = "stick" THEN Clocks ELSE {CHOOSE c \in Clocks : TRUE}) :
           SendTo(cmd, move, clk)
  /\ ops' = ops + 1
  /\ UNCHANGED <<pc, snap, ret, recPc, rec, acc, errs, nSwitch, hist>>

\* a switch that leaves the flag as it is
speed_kept(speed) == speed

\* int(not self.speed)
speed_toggled(speed) == IF speed = 0 THEN 1 ELSE 0

speed_switch ==
  /\ pc = "idle"
  /\ ops < MaxOps
  /\ self' = [self EXCEPT !.speed = speed_toggled(self.speed)]
  /\ nSwitch' = nSwitch + 1
  /\ last' = [op |-> "speed_switch", cmd |-> "", move |-> <<>>, raised |-> FALSE]
  /\ ops' = ops + 1
  /\ UNCHANGED <<sock, sent, pc, snap, ret, recPc, rec, acc, errs, hist>>

stop ==
  /\ pc = "idle"
  /\ ops < MaxOps
  /\ sock' = "closed"
  /\ last' = [op |-> "stop", cmd |-> "", move |-> <<>>, raised |-> FALSE]
  /\ ops' = ops + 1
  /\ UNCHANGED <<self, sent, pc, snap, ret, recPc, rec, acc, errs, nSwitch, hist>>

\* a reset that clears the velocity along x as well
cie_reset_x_vx(s) == [s EXCEPT !.x = 0, !.vx = 0]

\* self.x = self.y = self.z = 0 stores 0 into x, then y, then z
cie_reset_x(s) == [s EXCEPT !.x = 0]

cie_reset_y(s) == [s EXCEPT !.y = 0]

cie_reset_z(s) == [s EXCEPT !.z = 0]

cie_reset_store_x ==
  /\ pc = "idle"
  /\ ops < MaxOps
  /\ self' = cie_reset_x(self)
  /\ pc' = "reset_y"
  /\ last' = [op |-> "cie_reset", cmd |-> "", move |-> <<>>, raised |-> FALSE]
  /\ ops' = ops + 1
  /\ UNCHANGED <<sock, sent, snap, ret, recPc, rec, acc, errs, nSwitch, hist>>

cie_reset_store_y ==
  /\ pc = "reset_y"
  /\ self' = cie_reset_y(self)
  /\ pc' = "reset_z"
  /\ UNCHANGED <<sock, sent, snap, ret, recPc, rec, acc, errs, last, nSwitch,
                 hist, ops>>

cie_reset_store_z ==
  /\ pc = "reset_z"
  /\ self' = cie_reset_z(self)
  /\ pc' = "idle"
  /\ hist' = IF ~InParseData(recPc) THEN hist \cup {Telemetry(self')} ELSE hist
  /\ UNCHANGED <<sock, sent, snap, ret, recPc, rec, acc, errs, last, nSwitch, ops>>

\* the value get_drone_data reads for the k-th key of its dictionary
snapshot_read(s, k) == s[SNAP_FIELDS[k]]

\* get_drone_data: one attribute is read at a step; the last read returns
get_drone_data ==
  /\ pc \in {"idle", "snap"}
  /\ pc = "idle" => ops < MaxOps
  /\ LET k == Len(snap) + 1
         d == Append(snap, snapshot_read(self, k))
     IN  IF k < Len(SNAP_FIELDS)
         THEN snap' = d /\ pc' = "snap" /\ ret' = ret
         ELSE snap' = <<>> /\ pc' = "idle" /\ ret' = d
  /\ last' = [op |-> "get_drone_data", cmd |-> "", move |-> <<>>, raised |-> FALSE]
  /\ ops' = IF pc = "idle" THEN ops + 1 ELSE ops
  /\ UNCHANGED <<self, sock, sent, recPc, rec, acc, errs, nSwitch, hist>>

(***************************************************************************)
(* The receive thread: receive_data and parse_data.                        *)
(***************************************************************************)
\* the highest index of rec a statement of parse_data reads (-1: none)
parse_index(step) ==
  CASE step = "uptime" -> 8
    [] step = "height" -> 10
    [] step = "vy" -> 12
    [] step = "vx" -> 14
    [] step = "vz" -> 16
    [] step = "flytime" -> 18
    [] step = "battery" -> 21
    [] step = "get_command" -> 27
    [] OTHER -> -1

\* the attributes after one statement of parse_data; a is the value += loaded
parse_store(s, r, a, step) ==
  CASE step = "uptime" -> [s EXCEPT !.uptime = At(r, 7) + 255 * At(r, 8)]
    [] step = "height" -> [s EXCEPT !.height = At(r, 9) - At(r, 10)]
    [] step = "vy" -> [s EXCEPT !.vy = At(r, 11) - At(r, 12)]
    [] step = "vx" -> [s EXCEPT !.vx = At(r, 13) - At(r, 14)]
    [] step = "vz" -> [s EXCEPT !.vz = 0 - (At(r, 15) - At(r, 16))]
    [] step = "x_store" -> [s EXCEPT !.x = a + round_tenths(s.vx)]
    [] step = "y_store" -> [s EXCEPT !.y = a + round_tenths(s.vy)]
    [] step = "z_store" -> [s EXCEPT !.z = a + round_tenths(s.vz)]
    [] step = "flytime" -> [s EXCEPT !.flytime = At(r, 17) * At(r, 18)]
    [] step = "battery" -> [s EXCEPT !.battery = At(r, 21)]
    [] step = "get_command" -> [s EXCEPT !.get_command = <<At(r, 26), At(r, 27)>>]
    [] OTHER -> s

\* the value the load of x += v (y, z) keeps for the store
parse_load(s, a, step) ==
  CASE step = "x_load" -> s.x
    [] step = "y_load" -> s.y
    [] step = "z_load" -> s.z
    [] OTHER -> a

StepAfter(step) ==
  LET i == CHOOSE j \in 1..Len(PARSE_STEPS) : PARSE_STEPS[j] = step
  IN  IF i = Len(PARSE_STEPS) THEN "recv" ELSE PARSE_STEPS[i + 1]

\* the match statement, lines 99-105
dispatch(key) ==
  CASE key = 17 -> "ssid"
    [] key = 26 -> "wifi"
    [] key = 86 -> PARSE_STEPS[1]
    [] OTHER -> "recv"

\* a handler that lets the exception end the thread
except_escapes == "exit"

\* except Exception, lines 106-107: the error is printed and the loop goes
\* round again
except_Exception == "recv"

\* every line printed changes what the terminal shows: the lines are counted
\* up to MaxErrs + 1, where the count goes back to MaxErrs
Printed == IF errs <= MaxErrs THEN errs + 1 ELSE MaxErrs

\* sock.recvfrom(1518) returns at most 1518 bytes of a datagram
recvfrom(d) == PySlice(d, 0, RECV_BUFSIZE)

\* lines 96-98 on datagram d: rec[6] raises IndexError on fewer than 7 bytes
receive(d) ==
  /\ recPc = "recv"
  /\ sock = "bound"
  /\ ops < MaxOps
  /\ rec' = recvfrom(d)
  /\ IF HasIndex(rec', 6)
     THEN /\ self' = [self EXCEPT !.rec_command_id = dispatch_key(rec')]
          /\ recPc' = dispatch(dispatch_key(rec'))
          /\ errs' = errs
     ELSE /\ self' = self
          /\ recPc' = except_Exception
          /\ errs' = Printed
  /\ ops' = ops + 1
  /\ UNCHANGED <<sock, sent, pc, snap, ret, acc, last, nSwitch, hist>>

\* recvfrom on the closed socket raises OSError; a recvfrom that was blocked
\* when the socket was closed may as well stay blocked (this step not taken)
receive_closed ==
  /\ recPc = "recv"
  /\ sock = "closed"
  /\ recPc' = except_Exception
  /\ errs' = Printed
  /\ UNCHANGED <<self, sock, sent, pc, snap, ret, rec, acc, last, nSwitch,
                 hist, ops>>

\* line 101
store_ssid ==
  /\ recPc = "ssid"
  /\ LET text == PySlice(rec, 11, -2)
     IN  IF CanDecodeUtf8(text)
         THEN /\ self' = [self EXCEPT !.ssid = decode_utf8(text)]
              /\ recPc' = "recv"
              /\ errs' = errs
         ELSE /\ self' = self
              /\ recPc' = except_Exception
              /\ errs' = Printed
  /\ UNCHANGED <<sock, sent, pc, snap, ret, rec, acc, last, nSwitch, hist, ops>>

\* line 103
store_wifi ==
  /\ recPc = "wifi"
  /\ IF HasIndex(rec, 10)
     THEN /\ self' = [self EXCEPT !.wifi = DecimalConcat(At(rec, 10), At(rec, 9))]
          /\ recPc' = "recv"
          /\ errs' = errs
     ELSE /\ self' = self
          /\ recPc' = except_Exception
          /\ errs' = Printed
  /\ UNCHANGED <<sock, sent, pc, snap, ret, rec, acc, last, nSwitch, hist, ops>>

\* one statement of parse_data, lines 110-120
parse_data ==
  /\ InParseData(recPc)
  /\ IF HasIndex(rec, parse_index(recPc))
     THEN /\ self' = parse_store(self, rec, acc, recPc)
          /\ acc' = parse_load(self, acc, recPc)
          /\ recPc' = StepAfter(recPc)
          /\ errs' = errs
          /\ hist' = IF recPc' = "recv" THEN hist \cup {Telemetry(self')} ELSE hist
     ELSE /\ self' = self
          /\ acc' = acc
          /\ recPc' = except_Exception
          /\ errs' = Printed
          /\ hist' = hist
  /\ UNCHANGED <<sock, sent, pc, snap, ret, rec, last, nSwitch, ops>>

(***************************************************************************)
(* Datagrams the receive thread is given.  The vehicle builds its frames   *)
(* with the layout of build_packet.                                        *)
(***************************************************************************)
\* id 17, SSID 'AB' from byte 11 on
SsidFrame == build_packet(72, 17, 0, <<0, 0, 65, 66>>)

\* the same with another SSID byte and the checksums of SsidFrame
SsidFrameBadCrc == [SsidFrame EXCEPT ![12] = 67]

\* id 17 cut to 8 bytes
SsidFrameShort == SubSeq(SsidFrame, 1, 8)

\* id 17, the text is not UTF-8
SsidFrameNotUtf8 == build_packet(72, 17, 0, <<0, 0, 255, 66>>)

\* id 26
WifiFrame == build_packet(136, 26, 0, <<70, 1>>)

\* id 86: uptime 3, height 10, vy 50, vx 100, vz 100, flytime 6, battery 90,
\* command echo '1 2'
TelemetryFrame ==
  build_packet(136, 86, 3,
               <<12, 2, 50, 0, 100, 0, 0, 100, 2, 3, 0, 0, 90, 0, 0, 0, 0,
                 1, 2, 0, 0, 0, 0, 0>>)

\* id 86 cut to 10 bytes
TelemetryFrameShort == SubSeq(TelemetryFrame, 1, 10)

\* id 84, which receive_data does not handle
OtherFrame == build_packet(136, 84, 0, <<0>>)

\* id 263, bytes 7 and 1, of which line 98 makes int('17'); text 'CD'
Id263Frame == build_packet(136, 263, 0, <<0, 0, 67, 68>>)

Datagrams ==
  {SsidFrame, SsidFrameBadCrc, SsidFrameShort, SsidFrameNotUtf8, WifiFrame,
   TelemetryFrame, TelemetryFrameShort, OtherFrame, Id263Frame, <<>>}

receive_data ==
  \/ \E d \in Datagrams : receive(d)
  \/ receive_closed
  \/ store_ssid
  \/ store_wifi
  \/ parse_data

Next ==
  \/ connect
  \/ connect_get_ssid
  \/ send_to
  \/ speed_switch
  \/ stop
  \/ cie_reset_store_x
  \/ cie_reset_store_y
  \/ cie_reset_store_z
  \/ get_drone_data
  \/ receive_data

Spec == Init /\ [][Next]_vars

\* the steps the receive thread takes by itself: a thread that can run is
\* scheduled; whether a datagram arrives is up to the network
receive_thread_runs == receive_closed \/ store_ssid \/ store_wifi \/ parse_data

FairSpec == Init /\ [][Next]_vars /\ WF_vars(receive_thread_runs)

(***************************************************************************)
(* Calls of build_packet on a session, one call in a run: the arguments    *)
(* are in last, the list returned in ret.                                  *)
(***************************************************************************)
PacTypes == {72, 96, 104, 136}

CmdIds == {17, 80, 84, 85, 263, 65535}

SeqIds == {0, 1, 2, 255, 256, 65535}

Payloads ==
  {<<>>, <<0>>, <<255, 1, 2>>, move_to(0, DEFAULT_MOVE, <<12, 34, 56, 250000>>)}

InitBuildPacket ==
  /\ self = init_state
  /\ sock = "unbound"
  /\ sent = <<>>
  /\ pc = "call"
  /\ snap = <<>>
  /\ ret = <<>>
  /\ recPc = "recv"
  /\ rec = <<>>
  /\ acc = 0
  /\ errs = 0
  /\ \E t \in PacTypes, c \in CmdIds, q \in SeqIds, d \in Payloads :
       last = [op |-> "build_packet", args |-> <<t, c, q, d>>]
  /\ nSwitch = 0
  /\ hist = {Telemetry(init_state)}
  /\ ops = 0

call_build_packet ==
  /\ pc = "call"
  /\ last.op = "build_packet"
  /\ CanBuildPacket(last.args[2], last.args[3], last.args[4])
  /\ ret' = build_packet(last.args[1], last.args[2], last.args[3], last.args[4])
  /\ pc' = "returned"
  /\ UNCHANGED <<self, sock, sent, snap, recPc, rec, acc, errs, last, nSwitch,
                 hist, ops>>

SpecBuildPacket == InitBuildPacket /\ [][call_build_packet]_vars

(***************************************************************************)
(* A session that is constructed and then left alone by its caller while   *)
(* complete id-86 frames arrive.                                           *)
(***************************************************************************)
\* id 86: vx 100, no other velocity, battery 80
Vx100Frame ==
  build_packet(136, 86, 4,
               <<0, 0, 0, 0, 100, 0, 0, 0, 0, 0, 0, 0, 80, 0, 0, 0, 0,
                 0, 0, 0, 0, 0, 0, 0>>)

\* id 86: height 5, every velocity 0, battery 70
ZeroVelocityFrame ==
  build_packet(136, 86, 5,
               <<5, 0, 7, 7, 9, 9, 3, 3, 0, 0, 0, 0, 70, 0, 0, 0, 0,
                 0, 0, 0, 0, 0, 0, 0>>)

\* id 86: vy 5, vx -35, vz 25, battery 60
SlowFrame ==
  build_packet(136, 86, 6,
               <<0, 0, 5, 0, 0, 35, 0, 25, 0, 0, 0, 0, 60, 0, 0, 0, 0,
                 0, 0, 0, 0, 0, 0, 0>>)

TelemetryFrames == {TelemetryFrame, Vx100Frame, ZeroVelocityFrame, SlowFrame}

receive_telemetry == \E d \in TelemetryFrames : receive(d)

NextTelemetry ==
  \/ connect
  \/ connect_get_ssid
  \/ receive_telemetry
  \/ parse_data

SpecTelemetry == Init /\ [][NextTelemetry]_vars

(***************************************************************************)
(* A session that has been constructed and has fully processed one         *)
(* TelemetryFrame (a state of Spec, one operation into a run); from there  *)
(* the caller calls cie_reset while id-86 frames arrive.  ops counts the   *)
(* operations started from this state on.                                  *)
(***************************************************************************)
AfterOneFrame ==
  /\ self = [sequence |-> 2, speed |-> 0, ssid |-> SSID_UNKNOWN, uptime |-> 3,
             height |-> 10, x |-> 10, y |-> 5, z |-> 10, vx |-> 100,
             vy |-> 50, vz |-> 100, flytime |-> 6, battery |-> 90,
             wifi |-> 0, get_command |-> <<1, 2>>, rec_command_id |-> 86]
  /\ sock = "bound"
  /\ sent = <<conn_req_cmd,
              send_to_datagram(init_state, "get_ssid", DEFAULT_MOVE,
                               CHOOSE c \in Clocks : TRUE)>>
  /\ pc = "idle"
  /\ snap = <<>>
  /\ ret = <<>>
  /\ recPc = "recv"
  /\ rec = TelemetryFrame
  /\ acc = 0
  /\ errs = 0
  /\ last = [op |-> "send_to", cmd |-> "get_ssid", move |-> DEFAULT_MOVE,
             raised |-> FALSE]
  /\ nSwitch = 0
  /\ hist = {Telemetry(init_state), <<10, 100, 50, 100, 10, 5, 10, 6, 90>>}

InitReset == AfterOneFrame /\ ops = 0

NextReset ==
  \/ receive_telemetry
  \/ parse_data
  \/ cie_reset_store_x
  \/ cie_reset_store_y
  \/ cie_reset_store_z

SpecReset == InitReset /\ [][NextReset]_vars

(***************************************************************************)
(* A session late in a long run: the constructor and 65533 takeoff sends   *)
(* after it have succeeded, no stick send among them, so the counter,      *)
(* which goes up by 1 at every one of them, is at 65535.  sent keeps the   *)
(* two datagrams of the constructor only, the frames sent since are left   *)
(* out of it; ops counts the operations started from this state on.        *)
(***************************************************************************)
\* the largest value seq_id.to_bytes(2, 'little') takes
SEQ_FIELD_MAX == 65535

InitLongRun ==
  /\ self = [init_state EXCEPT !.sequence = SEQ_FIELD_MAX]
  /\ sock = "bound"
  /\ sent = <<conn_req_cmd,
              send_to_datagram(init_state, "get_ssid", DEFAULT_MOVE,
                               CHOOSE c \in Clocks : TRUE)>>
  /\ pc = "idle"
  /\ snap = <<>>
  /\ ret = <<>>
  /\ recPc = "recv"
  /\ rec = <<>>
  /\ acc = 0
  /\ errs = 0
  /\ last = [op |-> "send_to", cmd |-> "takeoff", move |-> DEFAULT_MOVE,
             raised |-> FALSE]
  /\ nSwitch = 0
  /\ hist = {Telemetry(init_state)}
  /\ ops = 0

NextLongRun ==
  \/ send_to
  \/ speed_switch
  \/ stop

SpecLongRun == InitLongRun /\ [][NextLongRun]_vars

(***************************************************************************)
(* Calls of move_to on a session whose speed flag is 0 or 1 (after no or   *)
(* one speed_switch), one call in a run: the move vector and the reading   *)
(* of the clock are in last, the payload returned in ret.                  *)
(***************************************************************************)
\* values of a channel: the ends of the range, the neutral value, bit 0 alone
ChannelValues == {0, 1, 1024, 2047}

\* readings of the clock: <<hour, minute, second, microsecond>>
ClockReadings ==
  {<<0, 0, 0, 0>>, <<12, 34, 56, 499>>, <<12, 34, 56, 500>>,
   <<12, 34, 56, 1500>>, <<12, 34, 56, 250000>>, <<23, 59, 59, 999499>>,
   <<23, 59, 59, 999500>>, <<23, 59, 59, 999999>>}

InitMoveTo ==
  /\ \E speed \in {0, 1} :
       /\ self = [init_state EXCEPT !.speed = speed]
       /\ nSwitch = speed
  /\ sock = "unbound"
  /\ sent = <<>>
  /\ pc = "call"
  /\ snap = <<>>
  /\ ret = <<>>
  /\ recPc = "recv"
  /\ rec = <<>>
  /\ acc = 0
  /\ errs = 0
  /\ \E a \in ChannelValues, b \in ChannelValues, c \in ChannelValues,
        d \in ChannelValues, clk \in ClockReadings :
       last = [op |-> "move_to", args |-> <<(<<a, b, c, d>>), clk>>]
  /\ hist = {Telemetry(init_state)}
  /\ ops = 0

call_move_to ==
  /\ pc = "call"
  /\ last.op = "move_to"
  /\ CanMoveTo(self.speed, last.args[1])
  /\ ret' = move_to(self.speed, last.args[1], last.args[2])
  /\ pc' = "returned"
  /\ UNCHANGED <<self, sock, sent, snap, recPc, rec, acc, errs, last, nSwitch,
                 hist, ops>>

SpecMoveTo == InitMoveTo /\ [][call_move_to]_vars

(***************************************************************************)
(* What the claims speak of.                                               *)
(***************************************************************************)
\* the datagram a step of the receive thread works on
Current == IF recPc = "recv" THEN rec' ELSE rec

\* the command id and the sequence number a transmitted frame carries
FrameCmd(f) == f[6] + 256 * f[7]

FrameSeq(f) == f[8] + 256 * f[9]

\* bit 44 of the packed integer in the payload of a transmitted stick frame
FrameSpeedBit(f) == (f[15] \div 16) % 2

\* both checksums of a datagram of at least 11 bytes match its bytes
ChecksumsMatch(d) ==
  /\ d[4] = CRC8_FUNC(SubSeq(d, 1, 3))
  /\ d[Len(d) - 1] + 256 * d[Len(d)] = CRC16_FUNC(SubSeq(d, 1, Len(d) - 2))

\* the drone state of the spec, the last received command id apart
DRONE_FIELDS ==
  {"ssid", "wifi", "uptime", "height", "vx", "vy", "vz", "x", "y", "z",
   "flytime", "battery", "get_command"}

TELEMETRY_FIELDS ==
  {"uptime", "height", "vx", "vy", "vz", "x", "y", "z", "flytime", "battery",
   "get_command"}

\* the fields that belong to a command id
OwnFields(key) ==
  CASE key = 17 -> {"ssid"}
    [] key = 26 -> {"wifi"}
    [] key = 86 -> TELEMETRY_FIELDS
    [] OTHER -> {}

\* a step leaves the attributes outside F as they are
Keeps(F) == \A f \in Fields \ F : self'[f] = self[f]

LastSent == sent[Len(sent)]

(***************************************************************************)
(* C1.  The sequence numbers of the transmitted frames start at 1 and go   *)
(* up by exactly 1 from one non-stick send to the next; a stick frame      *)
(* carries 0 and the first non-stick frame after a stick frame carries 1.  *)
(* (sent[1] is the connection request, which is no frame.)                 *)
(***************************************************************************)
C1_SequenceDiscipline ==
  \A i \in 2..Len(sent) :
    IF FrameCmd(sent[i]) = CMD_LIST.stick THEN FrameSeq(sent[i]) = 0
    ELSE IF i = 2 THEN FrameSeq(sent[i]) = 1
    ELSE IF FrameCmd(sent[i - 1]) = CMD_LIST.stick THEN FrameSeq(sent[i]) = 1
    ELSE FrameSeq(sent[i]) = FrameSeq(sent[i - 1]) + 1

(***************************************************************************)
(* C2.  No datagram ends the receive loop: the receive thread is always at *)
(* a statement of the loop, a datagram it has taken is always processed to *)
(* the end, with the transport open it then takes any next datagram, and a *)
(* valid frame it has processed is applied to the drone state whatever     *)
(* came before it.                                                         *)
(***************************************************************************)
C2_ReceiveLoopSurvives ==
  /\ recPc \in {"recv", "ssid", "wifi"} \/ InParseData(recPc)
  /\ recPc # "recv" => ENABLED (store_ssid \/ store_wifi \/ parse_data)
  /\ (recPc = "recv" /\ sock = "bound" /\ ops < MaxOps) =>
       \A d \in Datagrams : ENABLED receive(d)
  /\ (recPc = "recv" /\ rec = SsidFrame) => self.ssid = <<65, 66>>
  /\ (recPc = "recv" /\ rec = WifiFrame) => self.wifi = 170
  /\ (recPc = "recv" /\ rec = TelemetryFrame) =>
       self.battery = 90 /\ self.get_command = <<1, 2>>

\* a datagram raised in the loop and the SSID frame after it was applied
C2_Witness ==
  /\ errs >= 1
  /\ recPc = "recv"
  /\ rec = SsidFrame
  /\ self.ssid = <<65, 66>>
  /\ sock = "bound"

(***************************************************************************)
(* C3.  A datagram one of whose checksums does not match its bytes changes *)
(* no field of the drone state when receive_data processes it.             *)
(***************************************************************************)
C3_BadChecksumDiscarded ==
  [][(receive_data /\ Len(Current) >= 11 /\ ~ChecksumsMatch(Current))
       => \A f \in DRONE_FIELDS : self'[f] = self[f]]_vars

(***************************************************************************)
(* C4.  A datagram of fewer than 11 bytes leaves every field of the drone  *)
(* state, the SSID and the last received command id included, as it was.   *)
(***************************************************************************)
C4_TruncatedDiscarded ==
  [][(receive_data /\ Len(Current) < 11) => self' = self]_vars

(***************************************************************************)
(* C5.  A stick send with a channel outside 0 .. 2047 raises to its caller *)
(* and transmits nothing.                                                  *)
(***************************************************************************)
C5_OutOfRangeRejected ==
  (last.op = "send_to" /\ last.cmd = "stick" /\ ~InRange(last.move))
    => last.raised

(***************************************************************************)
(* C6.  cie_reset stores 0 into x, y and z and changes no other attribute: *)
(* each of its three stores leaves every other attribute, the sequence     *)
(* counter and the speed flag included, as it was.                         *)
(***************************************************************************)
C6_ResetOnlyPosition ==
  [][/\ (pc = "idle" /\ pc' = "reset_y") => (self'.x = 0 /\ Keeps({"x"}))
     /\ (pc = "reset_y" /\ pc' = "reset_z") => (self'.y = 0 /\ Keeps({"y"}))
     /\ (pc = "reset_z" /\ pc' = "idle") => (self'.z = 0 /\ Keeps({"z"}))]_vars

\* cie_reset has returned after a telemetry frame had moved the position
C6_Witness ==
  /\ last.op = "cie_reset"
  /\ pc = "idle"
  /\ self.x = 0 /\ self.y = 0 /\ self.z = 0
  /\ self.vx = 100 /\ self.vy = 50 /\ self.vz = 100
  /\ self.battery = 90
  /\ <<10, 100, 50, 100, 10, 5, 10, 6, 90>> \in hist

(***************************************************************************)
(* C7.  The velocity, position, height, flight time and battery of a       *)
(* snapshot get_drone_data has returned are those of the drone state after *)
(* one number of fully processed id-86 frames.                             *)
(***************************************************************************)
C7_SnapshotConsistent ==
  ret # <<>> =>
    <<ret[2], ret[3], ret[4], ret[5], ret[6], ret[7], ret[8], ret[9], ret[10]>>
      \in hist

(***************************************************************************)
(* C8.  A step of the receive thread changes only the fields of the        *)
(* command id its datagram carries in bytes 5 and 6, and the last received *)
(* command id: id 17 only ssid, id 26 only wifi, id 86 only the telemetry  *)
(* fields, any other id none; a datagram too short to carry a command id   *)
(* changes nothing.                                                        *)
(***************************************************************************)
C8_FrameEffect ==
  [][receive_data =>
       IF HasIndex(Current, 6)
       THEN Keeps(OwnFields(FrameCmd(Current)) \cup {"rec_command_id"})
       ELSE self' = self]_vars

(***************************************************************************)
(* C9.  The constructor transmits the connection request with the port     *)
(* 6038 in two little-endian bytes, then a get_ssid frame and nothing in   *)
(* between, and no step of it takes a datagram; the SSID changes only when *)
(* the receive loop processes a frame whose command id is 17.              *)
(***************************************************************************)
C9_Handshake ==
  /\ [](/\ pc = "connect" => sent = <<>>
        /\ pc = "get_ssid" => Len(sent) = 1
        /\ pc \notin {"connect", "get_ssid"} => Len(sent) >= 2
        /\ Len(sent) >= 1 =>
             sent[1] = <<99, 111, 110, 110, 95, 114, 101, 113, 58, 150, 23>>
        /\ Len(sent) >= 2 =>
             /\ Len(sent[2]) = 11
             /\ sent[2][5] = 72
             /\ FrameCmd(sent[2]) = 17)
  /\ [][/\ (pc \in {"connect", "get_ssid"} /\ pc' # pc) =>
             (Len(sent') = Len(sent) + 1 /\ rec' = rec /\ recPc' = recPc)
        /\ self'.ssid # self.ssid =>
             (recPc = "ssid" /\ recPc' = "recv" /\ FrameCmd(rec) = 17)]_vars

C11_BuildPacketLayout ==
  /\ (pc = "returned" /\ last.op = "build_packet") =>
       LET d == last.args[4]
           n == Len(ret)
       IN  /\ n = 11 + Len(d)
           /\ ret[1] = 204
           /\ ret[2] + 256 * ret[3] = 8 * n
           /\ ret[4] = CRC8_FUNC(SubSeq(ret, 1, 3))
           /\ ret[5] = last.args[1]
           /\ ret[6] + 256 * ret[7] = last.args[2]
           /\ ret[8] + 256 * ret[9] = last.args[3]
           /\ SubSeq(ret, 10, n - 2) = d
           /\ ret[n - 1] + 256 * ret[n] = CRC16_FUNC(SubSeq(ret, 1, n - 2))
           /\ \A i \in 1..n : IsByte(ret[i])
  /\ \A clk \in Clocks :
       /\ Len(send_to_datagram(init_state, "takeoff", DEFAULT_MOVE, clk)) = 11
       /\ Len(send_to_datagram(init_state, "get_ssid", DEFAULT_MOVE, clk)) = 11
       /\ Len(send_to_datagram(init_state, "land", DEFAULT_MOVE, clk)) = 12
       /\ Len(send_to_datagram(init_state, "stick", DEFAULT_MOVE, clk)) = 22

\* the land frame with sequence number 2 has been built
C11_Witness ==
  /\ pc = "returned"
  /\ last.op = "build_packet"
  /\ last.args = <<104, 85, 2, <<0>>>>
  /\ Len(ret) = 12
  /\ ret[6] = 85 /\ ret[8] = 2 /\ ret[10] = 0

(***************************************************************************)
(* C12.  Once stop() has closed the socket the receive loop eventually     *)
(* terminates: the receive thread is at no statement of the loop any more. *)
(***************************************************************************)
C12_LoopEndsAfterStop ==
  (sock = "closed") ~> ~(recPc \in {"recv", "ssid", "wifi"} \/ InParseData(recPc))

\* bit k of the little-endian integer whose bytes are bs
BytesBit(bs, k) == (bs[(k \div 8) + 1] \div Pow(2, k % 8)) % 2

RECURSIVE BytesField(_, _, _)
\* the w bits from bit o on of the little-endian integer whose bytes are bs
BytesField(bs, o, w) ==
  IF w = 0 THEN 0 ELSE BytesBit(bs, o) + 2 * BytesField(bs, o + 1, w - 1)

(***************************************************************************)
(* C13.  For channels in 0 .. 2047 and a speed flag of 0 or 1 the first 6  *)
(* bytes of the stick payload are the little-endian integer with channel 3 *)
(* in bits 0-10, channel 2 in bits 11-21, channel 1 in bits 22-32, channel *)
(* 0 in bits 33-43 and the flag in bit 44: each is read back from its own  *)
(* bits.  Neutral channels with flag 0 give 00 04 20 00 01 08.             *)
(***************************************************************************)
C13_StickPacking ==
  (pc = "returned" /\ last.op = "move_to") =>
    LET move == last.args[1]
    IN  /\ Len(ret) = 11
        /\ \A i \in 1..6 : IsByte(ret[i])
        /\ BytesField(ret, 0, 11) = move[4]
        /\ BytesField(ret, 11, 11) = move[3]
        /\ BytesField(ret, 22, 11) = move[2]
        /\ BytesField(ret, 33, 11) = move[1]
        /\ BytesField(ret, 44, 4) = self.speed
        /\ (move = DEFAULT_MOVE /\ self.speed = 0) =>
             SubSeq(ret, 1, 6) = <<0, 4, 32, 0, 1, 8>>

\* the payload of the largest channels with the flag set has been built
C13_Witness ==
  /\ pc = "returned"
  /\ last.op = "move_to"
  /\ last.args[1] = <<2047, 2047, 2047, 2047>>
  /\ self.speed = 1
  /\ SubSeq(ret, 1, 6) = <<255, 255, 255, 255, 255, 31>>

(***************************************************************************)
(* C14.  The millisecond value in bytes 9-10 of a stick payload is in      *)
(* 0 .. 999 for every reading of the clock.                                *)
(***************************************************************************)
C14_MillisecondRange ==
  (pc = "returned" /\ last.op = "move_to") =>
    (ret[10] + 256 * ret[11]) \in 0..999

\* round(v / 100, 1) in tenths for the velocities of the frames above, as
\* Python prints them: 1.0, 0.5, 0.0, -0.3, 0.1, 0.2
FrameIncrement(d) ==
  CASE d = TelemetryFrame -> <<10, 5, 10>>
    [] d = Vx100Frame -> <<10, 0, 0>>
    [] d = ZeroVelocityFrame -> <<0, 0, 0>>
    [] d = SlowFrame -> <<-3, 1, 2>>
    [] OTHER -> <<0, 0, 0>>

(***************************************************************************)
(* C15.  A fully processed id-86 frame adds round(v/100, 1) of its own vx  *)
(* (byte 13 - byte 14), vy (byte 11 - byte 12) and vz (-(byte 15 - byte    *)
(* 16)) to x, y and z: from the reset position one frame leaves its own    *)
(* increments, n frames with vx = 100 leave x = n, and a frame with zero   *)
(* velocity leaves the position as it was.  (Positions are in tenths.)     *)
(***************************************************************************)
C15_PositionIntegration ==
  /\ []((recPc = "recv" /\ ops = 1) =>
          <<self.x, self.y, self.z>> = FrameIncrement(rec))
  /\ []((recPc = "recv" /\ \A h \in hist \ {Telemetry(init_state)} : h[2] = 100)
          => self.x = 10 * ops)
  /\ [][/\ (recPc = "x_store" /\ recPc' = "y_load") =>
             self'.x = self.x + round_tenths(At(rec, 13) - At(rec, 14))
        /\ (recPc = "y_store" /\ recPc' = "z_load") =>
             self'.y = self.y + round_tenths(At(rec, 11) - At(rec, 12))
        /\ (recPc = "z_store" /\ recPc' = "flytime") =>
             self'.z = self.z + round_tenths(0 - (At(rec, 15) - At(rec, 16)))
        /\ (InParseData(recPc) /\ rec = ZeroVelocityFrame) =>
             <<self'.x, self'.y, self'.z>> = <<self.x, self.y, self.z>>]_vars

\* two frames with vx = 100 have been processed: x is 2
C15_Witness ==
  /\ recPc = "recv"
  /\ ops = 2
  /\ rec = Vx100Frame
  /\ \A h \in hist \ {Telemetry(init_state)} : h[2] = 100
  /\ Cardinality(hist) = 3
  /\ self.x = 20

(***************************************************************************)
(* C16.  Once cie_reset has returned, the position is the sum of the       *)
(* increments of the frames whose position update took effect after the    *)
(* reset, and nothing accumulated before the reset is left in it.  With at *)
(* most one frame taken since the position was 1.0, 0.5, 1.0: each of x,   *)
(* y and z is 0 or the increment of that frame.                            *)
(***************************************************************************)
C16_NoLostReset ==
  (last.op = "cie_reset" /\ pc = "idle") =>
    /\ self.x \in {0, FrameIncrement(rec)[1]}
    /\ self.y \in {0, FrameIncrement(rec)[2]}
    /\ self.z \in {0, FrameIncrement(rec)[3]}

(***************************************************************************)
(* C17.  Processing an id-86 datagram updates all telemetry fields or none *)
(* of them: when a statement of parse_data raises on a datagram too short  *)
(* for it, it is the first statement, before which nothing is stored; and  *)
(* a short datagram that has left the battery as it was has left the       *)
(* uptime as it was.                                                       *)
(***************************************************************************)
C17_AllOrNothing ==
  /\ []((recPc = "recv" /\ rec = TelemetryFrameShort /\ self.battery = 0) =>
          self.uptime = 0)
  /\ [][(parse_data /\ ~HasIndex(rec, parse_index(recPc))) =>
          recPc = PARSE_STEPS[1]]_vars

(***************************************************************************)
(* C18.  A send_to call that raises to its caller (unknown command, a      *)
(* payload that cannot be encoded, the socket closed) transmits nothing    *)
(* and leaves the sequence counter as it was before the call, 'stick'      *)
(* included.                                                               *)
(***************************************************************************)
C18_FailedSendKeepsSequence ==
  [][(ops' = ops + 1 /\ last'.op = "send_to" /\ last'.raised) =>
       (sent' = sent /\ self'.sequence = self.sequence)]_vars

(***************************************************************************)
(* C19.  The sequence counter always fits the 16-bit sequence field, and a *)
(* send of a known command with its channels in range on an open socket    *)
(* does not fail, whatever the counter has come to.                        *)
(***************************************************************************)
C19_SequenceFitsField ==
  /\ self.sequence <= SEQ_FIELD_MAX
  /\ (/\ last.op = "send_to"
      /\ last.cmd \in DOMAIN CMD_LIST
      /\ InRange(last.move)
      /\ sock # "closed") => ~last.raised

\* bytes 5 and 6 of a datagram of 7 bytes or more
IdBytes(d) == <<At(d, 5), At(d, 6)>>

(***************************************************************************)
(* C20.  The dispatch key is injective over the byte pairs (byte 5, byte   *)
(* 6): a datagram is never dispatched to the handler of a datagram with    *)
(* another pair, so ssid is changed only by datagrams with the pair        *)
(* (17, 0), wifi only by (26, 0) and the telemetry fields only by (86, 0). *)
(***************************************************************************)
C20_DispatchInjective ==
  [][/\ (recPc = "recv" /\ recPc' # "recv") =>
          \A d \in Datagrams :
            (HasIndex(d, 6) /\ IdBytes(d) # IdBytes(rec')) =>
              dispatch(dispatch_key(d)) # recPc'
     /\ (receive_data /\ self'.ssid # self.ssid) => IdBytes(rec) = <<17, 0>>
     /\ (receive_data /\ self'.wifi # self.wifi) => IdBytes(rec) = <<26, 0>>
     /\ (receive_data /\ \E f \in TELEMETRY_FIELDS : self'[f] # self[f]) =>
          IdBytes(rec) = <<86, 0>>]_vars

====
